---------------------------- MODULE Spec2Model ----------------------------
(***************************************************************************)
(* Graph derivation and analytics engine of the graphrag viewer:           *)
(*   graph_processing.filter_graph_data                                    *)
(*   graph_analysis.compute_pagerank / detect_communities                  *)
(*   graph_visualization.create_network_graph                              *)
(*   graph_queries / graphrag safe_qa_chain_run, fetch_graph_data,         *)
(*   ask_question and the app's Get Answer / Generate Graph handlers       *)
(*                                                                         *)
(* Representation.                                                         *)
(*   - a node table is a function  id -> <<name, entity_type>>             *)
(*   - an edge is a tuple <<source, target, relationship, confidence>>     *)
(*   - confidences and min_confidence are in hundredths (0.9 is 90)        *)
(*   - min_degree is a float in the program; it is kept in thousandths     *)
(*     (0.001 is 1, 1.0 is 1000), an integer degree d is d * 1000          *)
(*   - a Python value handed to filter_graph_data is a record              *)
(*     [type, items]: type is the Python type name, items its elements     *)
(*   - a float the program computes exactly from rationals (a PageRank     *)
(*     score, a node size) is a reduced fraction <<numerator, denominator>> *)
(*   - a string the program searches in is a sequence of characters        *)
(***************************************************************************)
EXTENDS Integers, Sequences, FiniteSets, TLC

VARIABLES
    raw_data,         \* the value passed to filter_graph_data
    args,             \* the keyword arguments of the last filter call
    pc,               \* position of the request
    degree_count,     \* filter_graph_data's local degree_count
    result,           \* what filter_graph_data returned or raised
    previous,         \* args, degree_count and result of the call before the last
    pagerank_scores,  \* what compute_pagerank returned
    communities,      \* what detect_communities returned
    call,             \* the arguments of create_network_graph and its library environment
    net,              \* what create_network_graph returned or raised
    first_net,        \* what the earlier of two identical create_network_graph calls gave
    qa,               \* one external call under its retry wrapper, and what the caller shows
    heap,             \* the containers of one pipeline run, by object identity
    requests,         \* two Generate-Graph requests running interleaved
    ingest,           \* fetch_graph_data's loop over the result rows
    ui                \* one Generate-Graph request of app.py, step by step

filter_vars == <<raw_data, args, pc, degree_count, result, previous, pagerank_scores,
                 communities>>

annotate_vars == <<call, net, first_net>>

vars == <<raw_data, args, pc, degree_count, result, previous, pagerank_scores,
          communities, call, net, first_net, qa, heap, requests, ingest, ui>>

-----------------------------------------------------------------------------
(* Bounds and input sets *)

MaxEdges == 2

MaxRows == 3

NodeIds == {1, 2}

EntityTypes == {"PERSON", "ORG", "GPE", "LAW", "DATE", "Unknown"}

NameOf(id) == IF id = 1 THEN "Alice" ELSE "Acme"

ConfidenceValues == {30, 90}

MinConfidenceValues == {50, 95}

MinDegreeValues == {0, 1, 1000, 2000}

EmptyMap == [x \in {} |-> 0]

Flags(p, o, g, l) ==
    [show_persons |-> p, show_orgs |-> o, show_gpe |-> g, show_laws |-> l]

DefaultFlags == Flags(TRUE, TRUE, TRUE, TRUE)

FlagChoices ==
    { DefaultFlags,
      Flags(FALSE, TRUE, TRUE, TRUE),
      Flags(TRUE, FALSE, FALSE, TRUE),
      Flags(FALSE, FALSE, FALSE, FALSE) }

\* node 1 and node 2 draw their types from two halves of the type enumeration
TypeChoices(id) ==
    IF id = 1 THEN {"PERSON", "GPE", "DATE"} ELSE {"ORG", "LAW", "Unknown"}

NodeTables ==
    UNION { { [n \in S |-> <<NameOf(n), ty[n]>>] :
                ty \in { f \in [S -> EntityTypes] :
                           \A n \in S : f[n] \in TypeChoices(n) } } :
            S \in SUBSET NodeIds }

EdgeValues == NodeIds \X NodeIds \X {"works for"} \X ConfidenceValues

RECURSIVE SeqsUpTo(_, _)
SeqsUpTo(S, n) ==
    IF n = 0 THEN { <<>> }
    ELSE LET shorter == SeqsUpTo(S, n - 1)
         IN  shorter \cup { Append(s, x) : s \in { t \in shorter : Len(t) = n - 1 }, x \in S }

EdgeLists == SeqsUpTo(EdgeValues, MaxEdges)

PyTuple(items) == [type |-> "tuple", items |-> items]

WellFormedInputs == { PyTuple(<<n, e>>) : n \in NodeTables, e \in EdgeLists }

\* values that are not a (nodes, edges) tuple: a bare list of rows, a tuple of
\* the wrong length, None, an int
MalformedInputs ==
    { [type |-> "list", items |-> <<>>],
      [type |-> "list", items |-> << <<1, 2, "works for", 90>> >>],
      [type |-> "list", items |-> << EmptyMap, <<>> >>],
      [type |-> "tuple", items |-> << EmptyMap >>],
      [type |-> "tuple", items |-> << EmptyMap, <<>>, <<>> >>],
      [type |-> "NoneType", items |-> <<>>],
      [type |-> "int", items |-> <<>>] }

RawInputs == WellFormedInputs \cup MalformedInputs

-----------------------------------------------------------------------------
(* Python helpers *)

\* dict.get(k, default)
Get(d, k, default) == IF k \in DOMAIN d THEN d[k] ELSE default

\* d[k] = v
Put(d, k, v) == [x \in DOMAIN d \cup {k} |-> IF x = k THEN v ELSE d[x]]

\* isinstance(v, tuple)
IsTuple(v) == v.type = "tuple"

\* len(v) is defined for sized values only; on None or an int it raises TypeError
HasLen(v) == v.type \in {"tuple", "list", "dict", "str"}

-----------------------------------------------------------------------------
(* graph_processing.filter_graph_data *)

\* line 3: if not isinstance(raw_data, tuple) or len(raw_data) != 2
shape_rejected(v) == ~IsTuple(v) \/ Len(v.items) # 2

\* line 4: the exception that leaves the function when the shape is rejected.
\* The message f-string evaluates len(raw_data) before ValueError is built.
shape_exception(v) == IF HasLen(v) THEN "ValueError" ELSE "TypeError"

\* line 12: if confidence >= min_confidence
counts_toward_degree_always(confidence, min_confidence) == TRUE

counts_toward_degree(confidence, min_confidence) == confidence >= min_confidence

\* lines 11-14: the degree loop, edge i onwards, dc the dict so far
RECURSIVE degree_loop(_, _, _, _)
degree_loop(edges, i, min_confidence, dc) ==
    IF i > Len(edges) THEN dc
    ELSE LET source == edges[i][1]
             target == edges[i][2]
             confidence == edges[i][4]
             d1 == Put(dc, source, Get(dc, source, 0) + 1)
             d2 == Put(d1, target, Get(d1, target, 0) + 1)
         IN  degree_loop(edges, i + 1, min_confidence,
                         IF counts_toward_degree(confidence, min_confidence)
                         THEN d2 ELSE dc)

\* lines 19-22: the type test
type_shown_copy_paste(flags, entity_type) ==
    \/ flags.show_persons /\ entity_type = "PERSON"
    \/ flags.show_orgs /\ entity_type = "ORG"
    \/ flags.show_gpe /\ entity_type = "GPE"
    \/ flags.show_gpe /\ entity_type = "LAW"

type_shown(flags, entity_type) ==
    \/ flags.show_persons /\ entity_type = "PERSON"
    \/ flags.show_orgs /\ entity_type = "ORG"
    \/ flags.show_gpe /\ entity_type = "GPE"
    \/ flags.show_laws /\ entity_type = "LAW"

\* line 23: degree_count.get(node_id, 0) >= min_degree
degree_reached_strict(degree, min_degree) == degree * 1000 > min_degree

degree_reached_inverted(degree, min_degree) == degree * 1000 <= min_degree

degree_reached(degree, min_degree) == degree * 1000 >= min_degree

\* lines 17-24
filter_nodes(nodes, dc, flags, min_degree) ==
    LET kept == { node_id \in DOMAIN nodes :
                    /\ type_shown(flags, nodes[node_id][2])
                    /\ degree_reached(Get(dc, node_id, 0), min_degree) }
    IN  [node_id \in kept |-> <<nodes[node_id][1], nodes[node_id][2]>>]

\* line 29: if source in filtered_nodes and target in filtered_nodes
edge_kept_either(source, target, filtered_nodes) ==
    source \in DOMAIN filtered_nodes \/ target \in DOMAIN filtered_nodes

edge_kept(source, target, filtered_nodes) ==
    source \in DOMAIN filtered_nodes /\ target \in DOMAIN filtered_nodes

\* lines 27-30: the list comprehension, edge i onwards
RECURSIVE filter_edges_reversed(_, _, _)
filter_edges_reversed(edges, i, filtered_nodes) ==
    IF i > Len(edges) THEN <<>>
    ELSE LET e == edges[i]
             rest == filter_edges_reversed(edges, i + 1, filtered_nodes)
         IN  IF edge_kept(e[1], e[2], filtered_nodes)
             THEN rest \o << <<e[1], e[2], e[3], e[4]>> >>
             ELSE rest

RECURSIVE filter_edges(_, _, _)
filter_edges(edges, i, filtered_nodes) ==
    IF i > Len(edges) THEN <<>>
    ELSE LET e == edges[i]
             rest == filter_edges(edges, i + 1, filtered_nodes)
         IN  IF edge_kept(e[1], e[2], filtered_nodes)
             THEN << <<e[1], e[2], e[3], e[4]>> >> \o rest
             ELSE rest

\* lines 1-32: the outcome of one call, with the local degree_count kept for
\* inspection
filter_graph_data(raw, flags, min_degree, min_confidence) ==
    IF shape_rejected(raw)
    THEN [result |-> [status |-> "raised", exc |-> shape_exception(raw)],
          degree_count |-> EmptyMap]
    ELSE LET nodes == raw.items[1]
             edges == raw.items[2]
             dc == degree_loop(edges, 1, min_confidence, EmptyMap)
             filtered_nodes == filter_nodes(nodes, dc, flags, min_degree)
             filtered_edges == filter_edges(edges, 1, filtered_nodes)
         IN  [result |-> [status |-> "returned", nodes |-> filtered_nodes,
                          edges |-> filtered_edges],
              degree_count |-> dc]

NoResult == [status |-> "none"]

NoCall == [called |-> FALSE]

\* the caller invokes filter_graph_data on raw_data
FilterCall ==
    /\ pc = "start"
    /\ \E flags \in FlagChoices, min_degree \in MinDegreeValues,
          min_confidence \in MinConfidenceValues :
         LET out == filter_graph_data(raw_data, flags, min_degree, min_confidence)
         IN  /\ args' = [flags |-> flags, min_degree |-> min_degree,
                         min_confidence |-> min_confidence]
             /\ result' = out.result
             /\ degree_count' = out.degree_count
             /\ pc' = IF out.result.status = "returned" THEN "filtered" ELSE "failed"
    /\ UNCHANGED <<raw_data, previous, pagerank_scores, communities>>
    /\ UNCHANGED <<annotate_vars, qa, heap, requests, ingest, ui>>

\* the caller invokes filter_graph_data again on the same raw_data and type
\* flags with min_degree or min_confidence raised (one slider moved up); the
\* earlier call is remembered in previous
RaiseThresholds ==
    /\ pc = "filtered"
    /\ \E min_degree \in MinDegreeValues, min_confidence \in MinConfidenceValues :
         /\ \/ min_degree > args.min_degree /\ min_confidence = args.min_confidence
            \/ min_degree = args.min_degree /\ min_confidence > args.min_confidence
         /\ LET out == filter_graph_data(raw_data, args.flags, min_degree, min_confidence)
            IN  /\ args' = [args EXCEPT !.min_degree = min_degree,
                                        !.min_confidence = min_confidence]
                /\ result' = out.result
                /\ degree_count' = out.degree_count
    /\ previous' = [called |-> TRUE, args |-> args, result |-> result,
                    degree_count |-> degree_count]
    /\ UNCHANGED <<raw_data, pc, pagerank_scores, communities>>
    /\ UNCHANGED <<annotate_vars, qa, heap, requests, ingest, ui>>

-----------------------------------------------------------------------------
(* graph_analysis *)

\* lines 5, 11-15 (20, 25-29): the networkx graph the function builds; add_edge
\* adds endpoints that are not yet nodes
GraphNodes(nodes, edges) ==
    DOMAIN nodes \cup { edges[i][1] : i \in 1..Len(edges) }
                 \cup { edges[i][2] : i \in 1..Len(edges) }

\* lines 8-9 and 22-23: if not nodes or not edges: return {}
metric_skipped(nodes, edges) == DOMAIN nodes = {} \/ Len(edges) = 0

\* lines 14-15: G.add_edge on a DiGraph; parallel edges collapse into one
GraphEdges(edges) == { <<edges[i][1], edges[i][2]>> : i \in 1..Len(edges) }

Abs(v) == IF v < 0 THEN 0 - v ELSE v

RECURSIVE Gcd(_, _)
Gcd(a, b) == IF b = 0 THEN a ELSE Gcd(b, a % b)

\* a set of ids in ascending order
RECURSIVE SortedSeq(_)
SortedSeq(S) ==
    IF S = {} THEN <<>>
    ELSE LET n == CHOOSE m \in S : \A k \in S : m <= k
         IN  <<n>> \o SortedSeq(S \ {n})

Without(s, j) == [i \in 1..(Len(s) - 1) |-> IF i < j THEN s[i] ELSE s[i + 1]]

\* determinant of the integer matrix M over the given rows and columns
RECURSIVE Det(_, _, _)
Det(M, rows, cols) ==
    IF Len(rows) = 0 THEN 1
    ELSE LET term(j) == (IF j % 2 = 1 THEN 1 ELSE 0 - 1)
                           * M[rows[1]][cols[j]] * Det(M, Tail(rows), Without(cols, j))
             RECURSIVE Sum(_)
             Sum(j) == IF j = 0 THEN 0 ELSE term(j) + Sum(j - 1)
         IN  Sum(Len(cols))

Successors(E, u) == { e[2] : e \in { d \in E : d[1] = u } }

\* line 17: nx.pagerank(G) with the library defaults (alpha = 0.85 = 17/20,
\* uniform personalization, dangling nodes spread uniformly).  The power
\* iteration converges to the solution x of
\*     x[n] = 17/20 * SUM_u P[u][n] * x[u] + 3/20 * 1/N
\* with P[u][n] = 1/outdeg(u) on an edge u -> n and 1/N for a dangling u.  The
\* scores are that solution, by Cramer's rule on the system scaled to
\* integers (x[u] = c(u) * y[u]), as reduced fractions.
nx_pagerank(V, E) ==
    LET N == Cardinality(V)
        order == SortedSeq(V)
        dangling(u) == Successors(E, u) = {}
        c(u) == IF dangling(u) THEN N ELSE Cardinality(Successors(E, u))
        a(u, n) == dangling(u) \/ n \in Successors(E, u)
        B == [n \in V |-> [u \in V |->
                (IF n = u THEN 20 * N * c(n) ELSE 0) - (IF a(u, n) THEN 17 * N ELSE 0)]]
        Bcol(k) == [n \in V |-> [u \in V |-> IF u = k THEN 3 ELSE B[n][u]]]
        Fraction(num, den) ==
            LET g == Gcd(Abs(num), Abs(den))
                sgn == IF den < 0 THEN 0 - 1 ELSE 1
            IN  <<(sgn * num) \div g, (sgn * den) \div g>>
        RECURSIVE Scores(_, _)
        Scores(i, den) ==
            IF i > N THEN EmptyMap
            ELSE (order[i] :> Fraction(c(order[i]) * Det(Bcol(order[i]), order, order), den))
                    @@ Scores(i + 1, den)
    IN  Scores(1, Det(B, order, order))

\* lines 4-17
compute_pagerank(nodes, edges) ==
    IF metric_skipped(nodes, edges) THEN EmptyMap
    ELSE nx_pagerank(GraphNodes(nodes, edges), GraphEdges(edges))

\* lines 19-32.  community_louvain.best_partition returns one community id per
\* node of G, ids 0..k-1; which partition comes out depends on the library's
\* random state, so every numbering is a possible outcome
Partitions(S) ==
    { p \in [S -> 0..(Cardinality(S) - 1)] :
        \A c \in 0..(Cardinality(S) - 1) :
            (\E n \in S : p[n] = c) => \A b \in 0..c : \E m \in S : p[m] = b }

\* the nodes reachable from the set R over the edges E taken in both directions
RECURSIVE Reachable(_, _)
Reachable(R, E) ==
    LET more == R \cup { e[2] : e \in { d \in E : d[1] \in R } }
                  \cup { e[1] : e \in { d \in E : d[2] \in R } }
    IN  IF more = R THEN R ELSE Reachable(more, E)

\* line 32: community_louvain.best_partition(G).  Louvain moves a node only
\* into the community of a neighbour, so a community never spans two connected
\* components of G
best_partition(V, E) ==
    { p \in Partitions(V) :
        \A u \in V : \A v \in V : p[u] = p[v] => v \in Reachable({u}, E) }

detect_communities(nodes, edges) ==
    IF metric_skipped(nodes, edges) THEN { EmptyMap }
    ELSE best_partition(GraphNodes(nodes, edges), GraphEdges(edges))

ComputePagerank ==
    /\ pc = "filtered"
    /\ pagerank_scores' = compute_pagerank(result.nodes, result.edges)
    /\ pc' = "ranked"
    /\ UNCHANGED <<raw_data, args, degree_count, result, previous, communities>>
    /\ UNCHANGED <<annotate_vars, qa, heap, requests, ingest, ui>>

DetectCommunities ==
    /\ pc = "ranked"
    /\ communities' \in detect_communities(result.nodes, result.edges)
    /\ pc' = "done"
    /\ UNCHANGED <<raw_data, args, degree_count, result, previous, pagerank_scores>>
    /\ UNCHANGED <<annotate_vars, qa, heap, requests, ingest, ui>>

-----------------------------------------------------------------------------
(* graph_visualization.create_network_graph *)

\* lines 9-16
ENTITY_COLORS ==
    [PERSON |-> "#ff4c4c", ORG |-> "#4caf50", GPE |-> "#3498db",
     LAW |-> "#f39c12", DATE |-> "#8e44ad", Unknown |-> "#95a5a6"]

\* line 31: ENTITY_COLORS.get(node_type, "#95a5a6")
entity_color(node_type) ==
    IF node_type \in DOMAIN ENTITY_COLORS THEN ENTITY_COLORS[node_type] ELSE "#95a5a6"

\* str.lower() on one character
LowerChar(ch) ==
    CASE ch = "A" -> "a"
      [] ch = "B" -> "b"
      [] ch = "L" -> "l"
      [] ch = "O" -> "o"
      [] OTHER -> ch

\* str.lower()
Lower(str) == [i \in 1..Len(str) |-> LowerChar(str[i])]

\* sub in str
Contains(sub, str) ==
    \E off \in 0..(Len(str) - Len(sub)) :
        \A i \in 1..Len(sub) : str[off + i] = sub[i]

\* a search query is None or a string
NoneQuery == [is_none |-> TRUE, chars |-> <<>>]

Query(chars) == [is_none |-> FALSE, chars |-> chars]

\* truth value of None / a string
QueryTruthy(q) == ~q.is_none /\ Len(q.chars) > 0

\* line 36: if search_query and search_query.lower() in node_name.lower()
search_matches_unguarded(search_query, node_name) ==
    ~search_query.is_none /\ Contains(Lower(search_query.chars), Lower(node_name))

search_matches(search_query, node_name) ==
    QueryTruthy(search_query) /\ Contains(Lower(search_query.chars), Lower(node_name))

\* line 28 and line 38: search_focus_node is None or a node id
NoFocus == [is_none |-> TRUE, id |-> 0]

FocusOn(node_id) == [is_none |-> FALSE, id |-> node_id]

\* line 77: if search_focus_node -- None and the integer 0 are both false
focus_truthy(f) == ~f.is_none /\ f.id # 0

\* line 32: 10 + pagerank_scores.get(node_id, 0) * 300, as a fraction
node_size(score) == <<10 * score[2] + 300 * score[1], score[2]>>

\* line 44: the score with three decimals, in thousandths
Round3(score) == (2000 * score[1] + score[2]) \div (2 * score[2])

\* lines 31-56: the node create_network_graph adds for one entry of nodes;
\* the tooltip is kept as the tuple of the four values it is formatted from
annotated_node_by_group(node_id, node_name, node_type, pagerank, comm, search_query) ==
    LET score == Get(pagerank, node_id, <<0, 1>>)
        community_id == Get(comm, node_id, 0)
    IN  [label |-> node_name,
         title |-> <<node_name, node_type, Round3(score), community_id>>,
         color |-> IF search_matches(search_query, node_name) THEN "#FFD700"
                   ELSE IF community_id = 0 THEN entity_color(node_type)
                   ELSE "#97c2fc",
         size |-> node_size(score),
         group |-> community_id]

annotated_node(node_id, node_name, node_type, pagerank, comm, search_query) ==
    LET score == Get(pagerank, node_id, <<0, 1>>)
        community_id == Get(comm, node_id, 0)
    IN  [label |-> node_name,
         title |-> <<node_name, node_type, Round3(score), community_id>>,
         color |-> IF search_matches(search_query, node_name) THEN "#FFD700"
                   ELSE entity_color(node_type),
         size |-> node_size(score),
         group |-> community_id]

\* lines 30-56: the loop over nodes.items(), entry i of the iteration order
\* onwards; acc holds the nodes added so far and search_focus_node
RECURSIVE node_loop(_, _, _, _, _, _, _)
node_loop(order, i, nodes, pagerank, comm, search_query, acc) ==
    IF i > Len(order) THEN acc
    ELSE LET node_id == order[i]
             node_name == nodes[node_id][1]
             node_type == nodes[node_id][2]
             added == Put(acc.nodes, node_id,
                          annotated_node(node_id, node_name, node_type, pagerank,
                                         comm, search_query))
             focus == IF search_matches(search_query, node_name)
                      THEN FocusOn(node_id) ELSE acc.focus
         IN  node_loop(order, i + 1, nodes, pagerank, comm, search_query,
                       [nodes |-> added, focus |-> focus])

\* lines 59-74: the loop over edges, edge i onwards; width is 1 + confidence * 3
\* in hundredths
RECURSIVE edge_loop(_, _, _)
edge_loop(edges, i, existing_nodes) ==
    IF i > Len(edges) THEN <<>>
    ELSE LET e == edges[i]
             rest == edge_loop(edges, i + 1, existing_nodes)
         IN  IF e[1] \in existing_nodes /\ e[2] \in existing_nodes
             THEN << [from |-> e[1], to |-> e[2], title |-> <<e[3], e[4]>>,
                      width |-> 100 + e[4] * 3] >> \o rest
             ELSE rest

NoOptions == [focus_set |-> FALSE]

\* lines 77-112: the options set when a focus node was found; scale is 2.0
focus_options(search_focus_node) ==
    IF focus_truthy(search_focus_node)
    THEN [focus_set |-> TRUE, node |-> search_focus_node.id, scale |-> 2]
    ELSE NoOptions

\* lines 24-25: a library call that raises.  Neither graph_analysis nor
\* create_network_graph has a handler, so the exception leaves
\* create_network_graph
library_raises(fault, metric, nodes, edges) ==
    fault = metric /\ ~metric_skipped(nodes, edges)

\* lines 18-114: the outcomes of create_network_graph(nodes, edges,
\* search_query); order is the iteration order of the dict nodes, fault names
\* the library call that raises in this environment ("none" for neither)
create_network_graph(order, nodes, edges, search_query, fault) ==
    IF library_raises(fault, "pagerank", nodes, edges)
    THEN { [status |-> "raised", exc |-> "PowerIterationFailedConvergence"] }
    ELSE IF library_raises(fault, "louvain", nodes, edges)
    THEN { [status |-> "raised", exc |-> "ValueError"] }
    ELSE { LET looped == node_loop(order, 1, nodes, pagerank, comm, search_query,
                                   [nodes |-> EmptyMap, focus |-> NoFocus])
           IN  [status |-> "returned",
                pagerank_scores |-> pagerank,
                communities |-> comm,
                nodes |-> looped.nodes,
                edges |-> edge_loop(edges, 1, DOMAIN nodes),
                search_focus_node |-> looped.focus,
                options |-> focus_options(looped.focus)] :
           pagerank \in { compute_pagerank(nodes, edges) },
           comm \in detect_communities(nodes, edges) }

(* inputs of create_network_graph *)

AnnotateIds == {0, 1, 2}

\* display names by node id: "Al" or "Bo", "aLo" or "Bo", "Bo"
NameChoices(id) ==
    IF id = 0 THEN { <<"A", "l">>, <<"B", "o">> }
    ELSE IF id = 1 THEN { <<"a", "L", "o">>, <<"B", "o">> }
    ELSE { <<"B", "o">> }

QueryChoices ==
    { NoneQuery, Query(<<>>), Query(<<"a", "l">>), Query(<<"L">>), Query(<<"z">>) }

AnnotateTypeOf(id) == IF id = 0 THEN "PERSON" ELSE IF id = 1 THEN "DATE" ELSE "EVENT"

AnnotateNodeTables ==
    UNION { { [n \in S |-> <<nm[n], AnnotateTypeOf(n)>>] :
                nm \in { f \in [S -> UNION { NameChoices(i) : i \in S }] :
                           \A n \in S : f[n] \in NameChoices(n) } } :
            S \in SUBSET AnnotateIds }

\* no edge, one edge, or one edge and the opposite edge
AnnotateEdgeLists(S) ==
    { <<>> } \cup { << <<u, v, "works for", 90>> >> : u \in S, v \in S }
             \cup { << <<e[1], e[2], "works for", 90>>, <<e[2], e[1], "knows", 30>> >> :
                      e \in { d \in S \X S : d[1] < d[2] } }

\* the dict nodes iterates in insertion order: ascending or descending ids here
IterationOrders(S) ==
    LET up == SortedSeq(S)
    IN  { up, [i \in 1..Len(up) |-> up[Len(up) + 1 - i]] }

AnnotateCalls ==
    UNION { { [called |-> TRUE, order |-> o, nodes |-> n, edges |-> e,
               search_query |-> q, fault |-> f] :
                o \in IterationOrders(DOMAIN n), e \in AnnotateEdgeLists(DOMAIN n),
                q \in QueryChoices, f \in {"none", "pagerank", "louvain"} } :
            n \in AnnotateNodeTables }

\* the caller invokes create_network_graph(nodes, edges, search_query)
Annotate ==
    /\ net.status = "none"
    /\ net' \in create_network_graph(call.order, call.nodes, call.edges,
                                     call.search_query, call.fault)
    /\ UNCHANGED <<call, first_net>>
    /\ UNCHANGED <<filter_vars, qa, heap, requests, ingest, ui>>

\* the caller invokes create_network_graph a second time with the same
\* arguments; the earlier outcome is remembered in first_net
AnnotateAgain ==
    /\ net.status = "returned"
    /\ first_net.status = "none"
    /\ first_net' = net
    /\ net' \in create_network_graph(call.order, call.nodes, call.edges,
                                     call.search_query, call.fault)
    /\ UNCHANGED call
    /\ UNCHANGED <<filter_vars, qa, heap, requests, ingest, ui>>

-----------------------------------------------------------------------------
(* External calls and their retry wrappers: graph_queries.py, graphrag.py *)

\* stop=stop_after_attempt(3)
stop_after_attempt == 3

\* what one run of graph.query / qa_chain.run does: a non-empty result, an
\* empty one, a ValueError, or an exception of another class
AttemptOutcomes == {"ok", "empty", "ValueError", "ConnectionError"}

Fails(outcome) == outcome \in {"ValueError", "ConnectionError"}

\* the functions that reach the backing store or the language model
CallSites == {"fetch_graph_data", "ask_question", "graphrag_main"}

\* graph_queries.py:21 and graphrag.py:11 carry @retry; fetch_graph_data
\* (graph_queries.py:28) carries no decorator
retry_wrapped(site) == site # "fetch_graph_data"

Returns(value) == [status |-> "returned", value |-> value]

Raises(exc) == [status |-> "raised", exc |-> exc]

\* one run of the decorated function body (of fetch_graph_data itself for the
\* fetch).  graph_queries.safe_qa_chain_run turns a ValueError into a returned
\* string; graphrag.safe_qa_chain_run reports it and raises it again
function_body(site, outcome) ==
    IF outcome = "ok"
    THEN Returns(IF site = "fetch_graph_data" THEN "nodes, edges" ELSE "answer")
    ELSE IF outcome = "empty"
    THEN Returns(IF site = "fetch_graph_data" THEN "{}, []" ELSE "")
    ELSE IF site = "ask_question" /\ outcome = "ValueError"
    THEN Returns("Query failed: ValueError")
    ELSE Raises(outcome)

\* tenacity: no retry= argument, so every exception is retried until
\* stop_after_attempt; a returned value is never retried
retry_again(site, attempt_number, body) ==
    /\ retry_wrapped(site)
    /\ body.status = "raised"
    /\ attempt_number < stop_after_attempt

\* what the call gives its caller once no further attempt is made: tenacity
\* raises RetryError when the last attempt raised
call_result(site, body) ==
    IF retry_wrapped(site) /\ body.status = "raised" THEN Raises("RetryError")
    ELSE body

\* truth value of a returned str / tuple
truthy(value) == value # ""

\* what the caller shows: app.py:25-30 for ask_question (no handler around
\* it, so Streamlit prints the exception), app.py:60-63 for the fetch,
\* graphrag.py:123-169 for graphrag's main
presented(site, r) ==
    IF r.status = "raised"
    THEN IF site = "graphrag_main" THEN "st.error: Failed after retries"
         ELSE "uncaught exception"
    ELSE IF site = "fetch_graph_data" THEN "graph pipeline continues"
    ELSE IF site = "ask_question" /\ ~truthy(r.value) THEN "st.warning: No answer found"
    ELSE "st.success: Answer"

\* the behaviour of the external service over successive runs
Scripts == [1..(stop_after_attempt + 1) -> AttemptOutcomes]

RetryCalls ==
    { [called |-> TRUE, site |-> s, script |-> sc, attempt_number |-> 0,
       pc |-> "calling", result |-> NoResult, shown |-> "nothing"] :
        s \in CallSites, sc \in Scripts }

\* one run of the function body
RunAttempt ==
    /\ qa.called
    /\ qa.pc = "calling"
    /\ LET n == qa.attempt_number + 1
           body == function_body(qa.site, qa.script[n])
       IN  qa' = IF retry_again(qa.site, n, body)
                 THEN [qa EXCEPT !.attempt_number = n, !.pc = "waiting"]
                 ELSE [qa EXCEPT !.attempt_number = n, !.pc = "done",
                                 !.result = call_result(qa.site, body)]
    /\ UNCHANGED <<filter_vars, annotate_vars, heap, requests, ingest, ui>>

\* wait=wait_exponential(multiplier=1, min=4, max=10): the sleep before the
\* next attempt
Backoff ==
    /\ qa.called
    /\ qa.pc = "waiting"
    /\ qa' = [qa EXCEPT !.pc = "calling"]
    /\ UNCHANGED <<filter_vars, annotate_vars, heap, requests, ingest, ui>>

\* the caller handles what the call gave it
Present ==
    /\ qa.called
    /\ qa.pc = "done"
    /\ qa' = [qa EXCEPT !.pc = "presented", !.shown = presented(qa.site, qa.result)]
    /\ UNCHANGED <<filter_vars, annotate_vars, heap, requests, ingest, ui>>

-----------------------------------------------------------------------------
(* The containers of one pipeline run, by object identity *)

\* the address a newly constructed container gets: objects is the sequence of
\* all containers constructed so far
Allocate(objects) == Len(objects) + 1

\* ref = <a new dict / list> when ref is a new address; otherwise the container
\* at ref gets the content
Store(objects, ref, content) ==
    IF ref = Allocate(objects) THEN Append(objects, content)
    ELSE [objects EXCEPT ![ref] = content]

\* d[k] = v for every entry of entries
dict_update(d, entries) ==
    [k \in DOMAIN d \cup DOMAIN entries |->
        IF k \in DOMAIN entries THEN entries[k] ELSE d[k]]

\* graph_processing.py line 7: filtered_nodes = {} binds a new dict
filtered_nodes_ref_alias(objects, nodes_ref) == nodes_ref

filtered_nodes_ref(objects, nodes_ref) == Allocate(objects)

\* the containers a stage hands to its caller
OutputRoles == {"filtered_nodes", "filtered_edges", "pagerank_scores",
                "communities", "net_nodes", "net_edges"}

\* app.py:36: the default of the min_degree slider and the value 1
HeapMinDegreeValues == {1, 1000}

\* fetch_graph_data built nodes and edges (graph_queries.py:46-47): containers
\* 1 and 2
HeapCalls ==
    { [called |-> TRUE, pc |-> "start", objects |-> <<n, e>>,
       refs |-> [raw_nodes |-> 1, raw_edges |-> 2],
       given |-> [nodes |-> n, edges |-> e],
       kept |-> NoResult, touched |-> {}] :
        n \in NodeTables, e \in SeqsUpTo(EdgeValues, 1) }

\* add a reference to refs
Bind(refs, role, ref) ==
    [r \in DOMAIN refs \cup {role} |-> IF r = role THEN ref ELSE refs[r]]

\* filter_graph_data, statement by statement on the containers
HeapFilter ==
    /\ heap.called
    /\ heap.pc = "start"
    /\ \E min_degree \in HeapMinDegreeValues :
         LET nodes_ref == heap.refs.raw_nodes
             edges_ref == heap.refs.raw_edges
             fn_ref == filtered_nodes_ref(heap.objects, nodes_ref)
             \* lines 7-8
             o1 == IF fn_ref = Allocate(heap.objects)
                   THEN Store(heap.objects, fn_ref, EmptyMap) ELSE heap.objects
             dc_ref == Allocate(o1)
             \* lines 11-14
             o2 == Store(o1, dc_ref, degree_loop(o1[edges_ref], 1, 50, EmptyMap))
             \* lines 17-24
             o3 == Store(o2, fn_ref,
                         dict_update(o2[fn_ref],
                                     filter_nodes(o2[nodes_ref], o2[dc_ref],
                                                  DefaultFlags, min_degree)))
             \* lines 27-30
             fe_ref == Allocate(o3)
             o4 == Store(o3, fe_ref, filter_edges(o3[edges_ref], 1, o3[fn_ref]))
         IN  heap' = [heap EXCEPT
                        !.pc = "filtered",
                        !.objects = o4,
                        !.refs = Bind(Bind(heap.refs, "filtered_nodes", fn_ref),
                                      "filtered_edges", fe_ref),
                        !.kept = [status |-> "returned", nodes |-> o4[fn_ref],
                                  edges |-> o4[fe_ref]]]
    /\ UNCHANGED <<filter_vars, annotate_vars, qa, requests, ingest, ui>>

\* graph_visualization.py line 24: compute_pagerank returns a new dict
HeapComputePagerank ==
    /\ heap.called
    /\ heap.pc = "filtered"
    /\ LET o == heap.objects
           ref == Allocate(o)
       IN  heap' = [heap EXCEPT
                      !.pc = "ranked",
                      !.objects = Store(o, ref,
                                        compute_pagerank(o[heap.refs.filtered_nodes],
                                                         o[heap.refs.filtered_edges])),
                      !.refs = Bind(heap.refs, "pagerank_scores", ref)]
    /\ UNCHANGED <<filter_vars, annotate_vars, qa, requests, ingest, ui>>

\* graph_visualization.py line 25: detect_communities returns a new dict
HeapDetectCommunities ==
    /\ heap.called
    /\ heap.pc = "ranked"
    /\ LET o == heap.objects
           ref == Allocate(o)
       IN  \E comm \in detect_communities(o[heap.refs.filtered_nodes],
                                          o[heap.refs.filtered_edges]) :
             heap' = [heap EXCEPT
                        !.pc = "clustered",
                        !.objects = Store(o, ref, comm),
                        !.refs = Bind(heap.refs, "communities", ref)]
    /\ UNCHANGED <<filter_vars, annotate_vars, qa, requests, ingest, ui>>

\* graph_visualization.py lines 27-74: the node and edge lists of the new
\* Network
HeapBuildNetwork ==
    /\ heap.called
    /\ heap.pc = "clustered"
    /\ LET o == heap.objects
           nodes == o[heap.refs.filtered_nodes]
           edges == o[heap.refs.filtered_edges]
           looped == node_loop(SortedSeq(DOMAIN nodes), 1, nodes,
                               o[heap.refs.pagerank_scores], o[heap.refs.communities],
                               NoneQuery, [nodes |-> EmptyMap, focus |-> NoFocus])
           nn_ref == Allocate(o)
           o1 == Store(o, nn_ref, looped.nodes)
           ne_ref == Allocate(o1)
           o2 == Store(o1, ne_ref, edge_loop(edges, 1, DOMAIN nodes))
       IN  heap' = [heap EXCEPT
                      !.pc = "annotated",
                      !.objects = o2,
                      !.refs = Bind(Bind(heap.refs, "net_nodes", nn_ref),
                                    "net_edges", ne_ref)]
    /\ UNCHANGED <<filter_vars, annotate_vars, qa, requests, ingest, ui>>

\* the caller later empties a container some stage returned (dict.clear() /
\* list.clear())
CallerMutates ==
    /\ heap.called
    /\ heap.pc = "annotated"
    /\ \E role \in OutputRoles \ heap.touched :
         /\ heap.objects[heap.refs[role]] # <<>>
         /\ heap' = [heap EXCEPT
                       !.objects = Store(heap.objects, heap.refs[role], <<>>),
                       !.touched = heap.touched \cup {role}]
    /\ UNCHANGED <<filter_vars, annotate_vars, qa, requests, ingest, ui>>

-----------------------------------------------------------------------------
(* Two Generate-Graph requests of app.py running interleaved *)

\* Streamlit runs the script of each session in its own thread of one process
Requests == {1, 2}

\* the locals of an invocation of filter_graph_data live in that invocation's
\* own frame (lines 7-8: filtered_nodes = {}, degree_count = {})
frame_shared(r) == 1

frame(r) == r

\* the contents of the backing store: Al (PERSON) and Bo (ORG)
StoreNodes == (1 :> << <<"A", "l">>, "PERSON" >>) @@ (2 :> << <<"B", "o">>, "ORG" >>)

StoreEdgeLists ==
    { << <<1, 2, "works for", 90>> >>,
      << <<1, 2, "works for", 90>>, <<2, 1, "knows", 30>> >>,
      << <<1, 2, "works for", 30>> >>,
      << <<1, 1, "knows", 90>>, <<1, 2, "works for", 90>> >> }

\* app.py:36-43: the sliders and the search box of a session
SessionConfigs ==
    { [min_degree |-> 1, min_confidence |-> 50, search_query |-> NoneQuery],
      [min_degree |-> 2000, min_confidence |-> 50, search_query |-> Query(<<"a", "l">>)],
      [min_degree |-> 1, min_confidence |-> 95, search_query |-> Query(<<"a", "l">>)] }

\* the values the process-wide random generator hands out
Draws == {0, 1}

\* the elements of S in some fixed order
RECURSIVE Enumerate(_)
Enumerate(S) ==
    IF S = {} THEN <<>>
    ELSE LET x == CHOOSE y \in S : TRUE
         IN  <<x>> \o Enumerate(S \ {x})

\* graph_analysis.py:32: best_partition(G) is called without random_state, so
\* it shuffles with numpy's process-wide generator: which of the possible
\* partitions comes out is decided by the value drawn
random_choice(S, draw) == Enumerate(S)[(draw % Cardinality(S)) + 1]

NoFrame == [degree_count |-> EmptyMap, filtered_nodes |-> EmptyMap]

RequestRuns ==
    { [called |-> TRUE,
       store |-> [nodes |-> StoreNodes, edges |-> e],
       stream |-> st, rng |-> 0, overlapped |-> FALSE,
       cfg |-> c,
       pc |-> [r \in Requests |-> "fetch"],
       raw |-> [r \in Requests |-> NoResult],
       frames |-> [f \in Requests |-> NoFrame],
       result |-> [r \in Requests |-> NoResult],
       net |-> [r \in Requests |-> NoResult]] :
        e \in StoreEdgeLists, st \in [Requests -> Draws],
        c \in [Requests -> SessionConfigs] }

\* the other request is in the middle of its run
Overlaps(r) ==
    requests.overlapped \/
        \E o \in Requests \ {r} : requests.pc[o] \notin {"fetch", "done"}

\* app.py:60: raw_data = fetch_graph_data()
ReqFetch(r) ==
    /\ requests.called
    /\ requests.pc[r] = "fetch"
    /\ requests' = [requests EXCEPT
                      !.pc[r] = "degree",
                      !.raw[r] = PyTuple(<<requests.store.nodes, requests.store.edges>>),
                      !.overlapped = Overlaps(r)]
    /\ UNCHANGED <<filter_vars, annotate_vars, qa, heap, ingest, ui>>

\* graph_processing.py lines 6-14
ReqDegreeLoop(r) ==
    /\ requests.called
    /\ requests.pc[r] = "degree"
    /\ requests' = [requests EXCEPT
                      !.pc[r] = "nodes",
                      !.frames[frame(r)] =
                          [degree_count |->
                              degree_loop(requests.raw[r].items[2], 1,
                                          requests.cfg[r].min_confidence, EmptyMap),
                           filtered_nodes |-> EmptyMap],
                      !.overlapped = Overlaps(r)]
    /\ UNCHANGED <<filter_vars, annotate_vars, qa, heap, ingest, ui>>

\* graph_processing.py lines 17-24
ReqFilterNodes(r) ==
    /\ requests.called
    /\ requests.pc[r] = "nodes"
    /\ requests' = [requests EXCEPT
                      !.pc[r] = "edges",
                      !.frames[frame(r)].filtered_nodes =
                          filter_nodes(requests.raw[r].items[1],
                                       requests.frames[frame(r)].degree_count,
                                       DefaultFlags, requests.cfg[r].min_degree),
                      !.overlapped = Overlaps(r)]
    /\ UNCHANGED <<filter_vars, annotate_vars, qa, heap, ingest, ui>>

\* graph_processing.py lines 27-32
ReqFilterEdges(r) ==
    /\ requests.called
    /\ requests.pc[r] = "edges"
    /\ LET filtered_nodes == requests.frames[frame(r)].filtered_nodes
       IN  requests' = [requests EXCEPT
                          !.pc[r] = "annotate",
                          !.result[r] =
                              [status |-> "returned", nodes |-> filtered_nodes,
                               edges |-> filter_edges(requests.raw[r].items[2], 1,
                                                      filtered_nodes)],
                          !.overlapped = Overlaps(r)]
    /\ UNCHANGED <<filter_vars, annotate_vars, qa, heap, ingest, ui>>

\* create_network_graph with the partition the generator's next value decides
annotate_with_draw(nodes, edges, search_query, draw) ==
    LET comm == random_choice(detect_communities(nodes, edges), draw)
    IN  CHOOSE o \in create_network_graph(SortedSeq(DOMAIN nodes), nodes, edges,
                                          search_query, "none") :
            o.communities = comm

\* app.py:70-71: if not nodes or not edges: st.warning
nothing_to_show_nodes_only(res) == DOMAIN res.nodes = {}

nothing_to_show(res) == DOMAIN res.nodes = {} \/ Len(res.edges) = 0

\* app.py lines 70-75
ReqAnnotate(r) ==
    /\ requests.called
    /\ requests.pc[r] = "annotate"
    /\ LET res == requests.result[r]
       IN  IF nothing_to_show(res)
           THEN requests' = [requests EXCEPT
                               !.pc[r] = "done",
                               !.net[r] = [status |-> "warning"],
                               !.overlapped = Overlaps(r)]
           ELSE requests' = [requests EXCEPT
                               !.pc[r] = "done",
                               !.rng = requests.rng + 1,
                               !.net[r] =
                                   annotate_with_draw(res.nodes, res.edges,
                                                      requests.cfg[r].search_query,
                                                      requests.stream[requests.rng + 1]),
                               !.overlapped = Overlaps(r)]
    /\ UNCHANGED <<filter_vars, annotate_vars, qa, heap, ingest, ui>>

-----------------------------------------------------------------------------
(* graph_queries.fetch_graph_data: the loop over the result rows *)

\* a field of a result row is None, a string, or a number
PyNone == [is_none |-> TRUE, str |-> "", num |-> 0]

PyStr(str) == [is_none |-> FALSE, str |-> str, num |-> 0]

PyNum(num) == [is_none |-> FALSE, str |-> "", num |-> num]

\* lines 53-56: record[...] or "Unknown" -- None and "" are both false
or_unknown(field) ==
    IF field.is_none \/ field.str = "" THEN "Unknown" ELSE field.str

\* line 57: record["confidence"] if record["confidence"] else 0.5, in
\* hundredths -- None and 0 are both false
confidence_or_default(field) ==
    IF field.is_none \/ field.num = 0 THEN 50 ELSE field.num

Row(source, target, source_name, source_label, target_name, target_label, confidence) ==
    [source |-> source, target |-> target, relationship |-> "works for",
     source_name |-> source_name, source_label |-> source_label,
     target_name |-> target_name, target_label |-> target_label,
     confidence |-> confidence]

\* rows the query can return: complete ones, ones with absent or empty
\* properties, a reversed edge renaming both nodes, and self-loops whose two
\* ends carry different names
RowChoices ==
    { Row(1, 2, PyStr("Alice"), PyStr("PERSON"), PyStr("Acme"), PyStr("ORG"), PyNum(90)),
      Row(1, 2, PyNone, PyNone, PyStr("Acme"), PyStr("ORG"), PyNone),
      Row(2, 1, PyStr("Acme Ltd"), PyStr("ORG"), PyStr("Alice"), PyStr(""), PyNum(0)),
      Row(1, 1, PyStr("Alice"), PyStr("PERSON"), PyStr("Al"), PyStr("GPE"), PyNum(30)),
      Row(2, 2, PyStr(""), PyStr("LAW"), PyNone, PyNone, PyNum(90)) }

\* lines 60-61: nodes[node_id] = (name, label)
store_node_setdefault(nodes, node_id, entry) ==
    IF node_id \in DOMAIN nodes THEN nodes ELSE Put(nodes, node_id, entry)

store_node(nodes, node_id, entry) == Put(nodes, node_id, entry)

\* line 62: edges.append((source_id, target_id, relationship, confidence))
append_edge_dedup(edges, edge) ==
    IF \E k \in 1..Len(edges) : edges[k][1] = edge[1] /\ edges[k][2] = edge[2]
    THEN edges ELSE Append(edges, edge)

append_edge(edges, edge) == Append(edges, edge)

\* line 44: results = graph.query(query); lines 46-47: nodes = {}, edges = []
IngestCalls ==
    { [called |-> TRUE, results |-> rows, i |-> 0, nodes |-> EmptyMap,
       edges |-> <<>>, pc |-> "loop", returned |-> NoResult] :
        rows \in SeqsUpTo(RowChoices, MaxRows) }

\* lines 49-62: one iteration of the loop
IngestRow ==
    /\ ingest.called
    /\ ingest.pc = "loop"
    /\ ingest.i < Len(ingest.results)
    /\ LET record == ingest.results[ingest.i + 1]
           source_id == record.source
           target_id == record.target
           source_name == or_unknown(record.source_name)
           target_name == or_unknown(record.target_name)
           source_label == or_unknown(record.source_label)
           target_label == or_unknown(record.target_label)
           confidence == confidence_or_default(record.confidence)
           with_source == store_node(ingest.nodes, source_id,
                                     <<source_name, source_label>>)
           with_target == store_node(with_source, target_id,
                                     <<target_name, target_label>>)
       IN  ingest' = [ingest EXCEPT
                        !.i = ingest.i + 1,
                        !.nodes = with_target,
                        !.edges = append_edge(ingest.edges,
                                              <<source_id, target_id,
                                                record.relationship, confidence>>)]
    /\ UNCHANGED <<filter_vars, annotate_vars, qa, heap, requests, ui>>

\* line 64: return nodes, edges
IngestReturn ==
    /\ ingest.called
    /\ ingest.pc = "loop"
    /\ ingest.i = Len(ingest.results)
    /\ ingest' = [ingest EXCEPT
                    !.pc = "returned",
                    !.returned = PyTuple(<<ingest.nodes, ingest.edges>>)]
    /\ UNCHANGED <<filter_vars, annotate_vars, qa, heap, requests, ui>>

-----------------------------------------------------------------------------
(* app.py: one Generate-Graph request, statement by statement *)

\* what fetch_graph_data can hand back: nothing in the store, the store of
\* the two-session runs, and a store whose second node has a type the filter
\* never shows
UiFetched ==
    { PyTuple(<<EmptyMap, <<>> >>) }
        \cup { PyTuple(<<StoreNodes, e>>) : e \in StoreEdgeLists }
        \cup { PyTuple(<< (1 :> << <<"A", "l">>, "PERSON" >>)
                              @@ (2 :> << <<"B", "o">>, "DATE" >>),
                          << <<1, 2, "works for", 90>> >> >>) }

\* line 62: if not raw_data -- None and an empty tuple are false
not_raw_data(v) == v.type = "NoneType" \/ Len(v.items) = 0

UiCalls ==
    { [called |-> TRUE, fetch |-> f, cfg |-> c, fault |-> x, pc |-> "start",
       steps |-> <<>>, raw_data |-> NoResult, filtered |-> NoResult,
       net |-> NoResult, shown |-> "nothing"] :
        f \in { Returns(v) : v \in UiFetched } \cup { Raises("ServiceUnavailable") },
        c \in SessionConfigs, x \in {"none", "louvain"} }

\* line 60: raw_data = fetch_graph_data()
GenFetch ==
    /\ ui.called
    /\ ui.pc = "start"
    /\ ui' = IF ui.fetch.status = "raised"
             THEN [ui EXCEPT !.pc = "failed", !.steps = Append(ui.steps, "fetch"),
                             !.shown = "uncaught exception"]
             ELSE [ui EXCEPT !.pc = "fetched", !.steps = Append(ui.steps, "fetch"),
                             !.raw_data = ui.fetch.value]
    /\ UNCHANGED <<filter_vars, annotate_vars, qa, heap, requests, ingest>>

\* lines 62-68: the test of raw_data and the filter_graph_data call
GenFilter ==
    /\ ui.called
    /\ ui.pc = "fetched"
    /\ ui' = IF not_raw_data(ui.raw_data)
             THEN [ui EXCEPT !.pc = "ended", !.shown = "st.error: Failed to fetch data"]
             ELSE LET out == filter_graph_data(ui.raw_data, DefaultFlags,
                                               ui.cfg.min_degree,
                                               ui.cfg.min_confidence).result
                  IN  IF out.status = "raised"
                      THEN [ui EXCEPT !.pc = "failed",
                                      !.steps = Append(ui.steps, "filter"),
                                      !.shown = "uncaught exception"]
                      ELSE [ui EXCEPT !.pc = "filtered",
                                      !.steps = Append(ui.steps, "filter"),
                                      !.filtered = out]
    /\ UNCHANGED <<filter_vars, annotate_vars, qa, heap, requests, ingest>>

\* lines 70-71: if not nodes or not edges: st.warning(...)
GenWarn ==
    /\ ui.called
    /\ ui.pc = "filtered"
    /\ nothing_to_show(ui.filtered)
    /\ ui' = [ui EXCEPT !.pc = "ended",
                        !.shown = "st.warning: No graph data available after filtering"]
    /\ UNCHANGED <<filter_vars, annotate_vars, qa, heap, requests, ingest>>

\* line 74: net = create_network_graph(nodes, edges, search_query)
GenAnnotate ==
    /\ ui.called
    /\ ui.pc = "filtered"
    /\ ~nothing_to_show(ui.filtered)
    /\ \E o \in create_network_graph(SortedSeq(DOMAIN ui.filtered.nodes),
                                     ui.filtered.nodes, ui.filtered.edges,
                                     ui.cfg.search_query, ui.fault) :
         ui' = IF o.status = "raised"
               THEN [ui EXCEPT !.pc = "failed", !.steps = Append(ui.steps, "annotate"),
                               !.shown = "uncaught exception"]
               ELSE [ui EXCEPT !.pc = "annotated",
                               !.steps = Append(ui.steps, "annotate"), !.net = o]
    /\ UNCHANGED <<filter_vars, annotate_vars, qa, heap, requests, ingest>>

\* lines 75-76: display_graph(net); st.success(...)
GenDisplay ==
    /\ ui.called
    /\ ui.pc = "annotated"
    /\ ui' = [ui EXCEPT !.pc = "ended", !.steps = Append(ui.steps, "render"),
                        !.shown = "graph"]
    /\ UNCHANGED <<filter_vars, annotate_vars, qa, heap, requests, ingest>>

-----------------------------------------------------------------------------
(* Specification *)

NoArgs == [flags |-> DefaultFlags, min_degree |-> 1000, min_confidence |-> 50]

Init ==
    /\ raw_data \in RawInputs
    /\ args = NoArgs
    /\ pc = "start"
    /\ degree_count = EmptyMap
    /\ result = NoResult
    /\ previous = NoCall
    /\ pagerank_scores = EmptyMap
    /\ communities = EmptyMap
    /\ call = NoCall
    /\ net = NoResult
    /\ first_net = NoResult
    /\ qa = NoCall
    /\ heap = NoCall
    /\ requests = NoCall
    /\ ingest = NoCall
    /\ ui = NoCall

Next == FilterCall \/ ComputePagerank \/ DetectCommunities

Spec == Init /\ [][Next]_vars

\* filter_vars of a request that has not called filter_graph_data
FilterIdle ==
    /\ raw_data = PyTuple(<<EmptyMap, <<>> >>)
    /\ args = NoArgs
    /\ pc = "start"
    /\ degree_count = EmptyMap
    /\ result = NoResult
    /\ previous = NoCall
    /\ pagerank_scores = EmptyMap
    /\ communities = EmptyMap

\* create_network_graph on its own, called once or twice
InitAnnotate ==
    /\ FilterIdle
    /\ call \in AnnotateCalls
    /\ net = NoResult
    /\ first_net = NoResult
    /\ qa = NoCall
    /\ heap = NoCall
    /\ requests = NoCall
    /\ ingest = NoCall
    /\ ui = NoCall

NextAnnotate == Annotate \/ AnnotateAgain

SpecAnnotate == InitAnnotate /\ [][NextAnnotate]_vars

\* one external call, its attempts and what the caller shows
InitRetry ==
    /\ FilterIdle
    /\ call = NoCall
    /\ net = NoResult
    /\ first_net = NoResult
    /\ qa \in RetryCalls
    /\ heap = NoCall
    /\ requests = NoCall
    /\ ingest = NoCall
    /\ ui = NoCall

NextRetry == RunAttempt \/ Backoff \/ Present

SpecRetry == InitRetry /\ [][NextRetry]_vars

\* one pipeline run on the heap, then the caller changing what it was given
InitHeap ==
    /\ FilterIdle
    /\ call = NoCall
    /\ net = NoResult
    /\ first_net = NoResult
    /\ qa = NoCall
    /\ heap \in HeapCalls
    /\ requests = NoCall
    /\ ingest = NoCall
    /\ ui = NoCall

NextHeap ==
    \/ HeapFilter
    \/ HeapComputePagerank
    \/ HeapDetectCommunities
    \/ HeapBuildNetwork
    \/ CallerMutates

SpecHeap == InitHeap /\ [][NextHeap]_vars

\* two sessions pressing Generate Graph, their steps in any order
InitRequests ==
    /\ FilterIdle
    /\ call = NoCall
    /\ net = NoResult
    /\ first_net = NoResult
    /\ qa = NoCall
    /\ heap = NoCall
    /\ requests \in RequestRuns
    /\ ingest = NoCall
    /\ ui = NoCall

NextRequests ==
    \E r \in Requests :
        \/ ReqFetch(r)
        \/ ReqDegreeLoop(r)
        \/ ReqFilterNodes(r)
        \/ ReqFilterEdges(r)
        \/ ReqAnnotate(r)

SpecRequests == InitRequests /\ [][NextRequests]_vars

\* fetch_graph_data building nodes and edges from the rows of one query
InitIngest ==
    /\ FilterIdle
    /\ call = NoCall
    /\ net = NoResult
    /\ first_net = NoResult
    /\ qa = NoCall
    /\ heap = NoCall
    /\ requests = NoCall
    /\ ingest \in IngestCalls
    /\ ui = NoCall

NextIngest == IngestRow \/ IngestReturn

SpecIngest == InitIngest /\ [][NextIngest]_vars

\* one press of Generate Graph
InitUi ==
    /\ FilterIdle
    /\ call = NoCall
    /\ net = NoResult
    /\ first_net = NoResult
    /\ qa = NoCall
    /\ heap = NoCall
    /\ requests = NoCall
    /\ ingest = NoCall
    /\ ui \in UiCalls

NextUi == GenFetch \/ GenFilter \/ GenWarn \/ GenAnnotate \/ GenDisplay

SpecUi == InitUi /\ [][NextUi]_vars

\* repeated filter calls with thresholds raised
NextRefilter == FilterCall \/ RaiseThresholds

SpecRefilter == Init /\ [][NextRefilter]_vars

-----------------------------------------------------------------------------
(* Reference definitions the properties are stated with *)

Returned == result.status = "returned"

RawNodes == raw_data.items[1]

RawEdges == raw_data.items[2]

\* the entity types the type flags of a call allow
AllowedTypes(flags) ==
    (IF flags.show_persons THEN {"PERSON"} ELSE {}) \cup
    (IF flags.show_orgs THEN {"ORG"} ELSE {}) \cup
    (IF flags.show_gpe THEN {"GPE"} ELSE {}) \cup
    (IF flags.show_laws THEN {"LAW"} ELSE {})

\* the (edge, endpoint) incidences at node n over edges with confidence >= c
Incidences(edges, n, c) ==
    { ie \in (1..Len(edges)) \X {1, 2} :
        edges[ie[1]][4] >= c /\ edges[ie[1]][ie[2]] = n }

QualifyingDegree(edges, n, c) == Cardinality(Incidences(edges, n, c))

Incident(e, n) == e[1] = n \/ e[2] = n

BothEndpointsIn(e, nodes) == e[1] \in DOMAIN nodes /\ e[2] \in DOMAIN nodes

-----------------------------------------------------------------------------
(* Properties *)

\* C1 - referential integrity: every edge filter_graph_data returns has
\* its source and its target among the keys of the returned node map.
ReferentialIntegrity ==
    Returned =>
        \A i \in 1..Len(result.edges) :
            /\ result.edges[i][1] \in DOMAIN result.nodes
            /\ result.edges[i][2] \in DOMAIN result.nodes

\* a call that kept one edge and dropped another whose endpoint was filtered out
ReferentialIntegrityWitness ==
    /\ Returned
    /\ Len(result.edges) = 1
    /\ Len(RawEdges) = 2
    /\ DOMAIN result.nodes # DOMAIN RawNodes

\* C2 - node retention: a raw node is in the returned node map, with its
\* name and type unchanged, iff its type is among the allowed types and its
\* qualifying degree is at least min_degree; the map has no other key.
NodeRetention ==
    Returned =>
        /\ DOMAIN result.nodes \subseteq DOMAIN RawNodes
        /\ \A n \in DOMAIN RawNodes :
             n \in DOMAIN result.nodes <=>
                /\ RawNodes[n][2] \in AllowedTypes(args.flags)
                /\ QualifyingDegree(RawEdges, n, args.min_confidence) * 1000
                      >= args.min_degree
        /\ \A n \in DOMAIN result.nodes : result.nodes[n] = RawNodes[n]

\* Scenario A: Alice (PERSON) works for Acme (ORG) with confidence 0.9,
\* min_degree 1, min_confidence 0.5, every type shown: both nodes and the edge
\* are returned
NodeRetentionWitness ==
    /\ Returned
    /\ raw_data = PyTuple(<< (1 :> <<"Alice", "PERSON">>) @@ (2 :> <<"Acme", "ORG">>),
                            << <<1, 2, "works for", 90>> >> >>)
    /\ args = [flags |-> DefaultFlags, min_degree |-> 1000, min_confidence |-> 50]
    /\ DOMAIN result.nodes = {1, 2}
    /\ result.edges = << <<1, 2, "works for", 90>> >>

\* C3 - with every show_* flag at its default (True), a node of any
\* entity type, DATE and Unknown included, is kept whenever its degree is at
\* least min_degree.
DefaultAdmitsEveryType ==
    (Returned /\ args.flags = DefaultFlags) =>
        \A n \in DOMAIN RawNodes :
            QualifyingDegree(RawEdges, n, args.min_confidence) * 1000 >= args.min_degree
                => n \in DOMAIN result.nodes

\* C4 - degree correctness: the degree filter_graph_data computes for a
\* node is the number of (edge, endpoint) incidences over edges with confidence
\* >= min_confidence; an edge below min_confidence adds nothing.
DegreeCorrectness ==
    Returned =>
        /\ \A n \in NodeIds :
             Get(degree_count, n, 0) = QualifyingDegree(RawEdges, n, args.min_confidence)
        /\ \A n \in DOMAIN degree_count : degree_count[n] >= 1

\* a qualifying self-loop counted twice next to an edge below min_confidence
\* at the same node that is not counted
DegreeCorrectnessWitness ==
    /\ Returned
    /\ \E n \in NodeIds :
         /\ Get(degree_count, n, 0) = 2
         /\ \E i, j \in 1..Len(RawEdges) :
              /\ RawEdges[i][1] = n /\ RawEdges[i][2] = n
              /\ RawEdges[i][4] >= args.min_confidence
              /\ Incident(RawEdges[j], n)
              /\ RawEdges[j][4] < args.min_confidence

\* C5 - edge retention: the returned edge list is the raw edge list
\* restricted to the edges with both endpoints in the returned node map, in raw
\* order and multiplicity, whatever the confidence of each edge.
EdgeRetention ==
    Returned =>
        LET Kept(e) == BothEndpointsIn(e, result.nodes)
        IN  result.edges = SelectSeq(RawEdges, Kept)

\* an edge below min_confidence is returned after another, different edge,
\* because both its endpoints qualified through the other edge
EdgeRetentionWitness ==
    /\ Returned
    /\ args.min_degree >= 1
    /\ Len(result.edges) = 2
    /\ result.edges[1] # result.edges[2]
    /\ result.edges[2][4] < args.min_confidence

\* C6 - monotonicity: with raw data and type flags fixed, raising
\* min_degree never adds a node to the returned node map, and raising
\* min_confidence never raises a node's computed degree.
Monotonicity ==
    (previous.called /\ Returned) =>
        /\ ( /\ args.min_degree >= previous.args.min_degree
             /\ args.min_confidence = previous.args.min_confidence )
              => DOMAIN result.nodes \subseteq DOMAIN previous.result.nodes
        /\ args.min_confidence >= previous.args.min_confidence
              => \A n \in NodeIds :
                    Get(degree_count, n, 0) <= Get(previous.degree_count, n, 0)

\* min_degree was raised and a node was dropped
MonotonicityWitness ==
    /\ previous.called
    /\ args.min_degree > previous.args.min_degree
    /\ DOMAIN result.nodes # DOMAIN previous.result.nodes
    /\ DOMAIN result.nodes # {}

\* C7 (as stated) - with min_degree = 0 every type-matching node is
\* admitted, and a node admitted with zero qualifying degree has no incident
\* edge in the returned edge list.
ZeroDegreeNodesIsolated ==
    (Returned /\ args.min_degree = 0) =>
        /\ \A n \in DOMAIN RawNodes :
             RawNodes[n][2] \in AllowedTypes(args.flags) => n \in DOMAIN result.nodes
        /\ \A n \in DOMAIN result.nodes :
             Get(degree_count, n, 0) = 0 =>
                \A i \in 1..Len(result.edges) : ~Incident(result.edges[i], n)

\* C7 (amended) - with min_degree = 0 every type-matching node is
\* admitted, and a node admitted with zero qualifying degree has no incident
\* edge of confidence >= min_confidence in the returned edge list; every raw
\* edge between it and an admitted node is returned.
ZeroDegreeNodesKeepWeakEdges ==
    (Returned /\ args.min_degree = 0) =>
        /\ \A n \in DOMAIN RawNodes :
             RawNodes[n][2] \in AllowedTypes(args.flags) => n \in DOMAIN result.nodes
        /\ \A n \in DOMAIN result.nodes :
             Get(degree_count, n, 0) = 0 =>
                /\ \A i \in 1..Len(result.edges) :
                     Incident(result.edges[i], n)
                        => result.edges[i][4] < args.min_confidence
                /\ \A j \in 1..Len(RawEdges) :
                     (Incident(RawEdges[j], n) /\ BothEndpointsIn(RawEdges[j], result.nodes))
                        => \E i \in 1..Len(result.edges) : result.edges[i] = RawEdges[j]

\* min_degree = 0, a node with zero qualifying degree was admitted and an
\* edge below min_confidence at that node was returned
ZeroDegreeWitness ==
    /\ Returned
    /\ args.min_degree = 0
    /\ \E n \in DOMAIN result.nodes :
         /\ Get(degree_count, n, 0) = 0
         /\ \E i \in 1..Len(result.edges) : Incident(result.edges[i], n)

\* C8 - a raw input that is not a (nodes, edges) tuple makes
\* filter_graph_data raise the input-shape error (ValueError) and return
\* nothing.
InputShapeError ==
    (pc # "start" /\ raw_data \in MalformedInputs) =>
        result = [status |-> "raised", exc |-> "ValueError"]

\* C9 - centrality totality: compute_pagerank returns exactly one entry
\* per filtered node, also when the filtered edge list is empty.
CentralityTotality ==
    pc \in {"ranked", "done"} => DOMAIN pagerank_scores = DOMAIN result.nodes

\* C10 - community totality: detect_communities assigns one community id
\* to every filtered node, also to nodes with no surviving incident edge.
CommunityTotality ==
    pc = "done" => DOMAIN communities = DOMAIN result.nodes

\* the sum of the scores of the nodes in S, as a fraction
RECURSIVE SumScores(_, _)
SumScores(scores, S) ==
    IF S = {} THEN <<0, 1>>
    ELSE LET n == CHOOSE x \in S : TRUE
             rest == SumScores(scores, S \ {n})
         IN  <<scores[n][1] * rest[2] + rest[1] * scores[n][2], scores[n][2] * rest[2]>>

\* C20 - centrality normalization: whenever the filtered graph has at
\* least one node, every score is non-negative and the scores sum to 1 within
\* 1e-6.
CentralityNormalization ==
    (pc \in {"ranked", "done"} /\ DOMAIN result.nodes # {}) =>
        /\ \A n \in DOMAIN pagerank_scores :
              pagerank_scores[n][1] >= 0 /\ pagerank_scores[n][2] > 0
        /\ LET total == SumScores(pagerank_scores, DOMAIN pagerank_scores)
           IN  Abs(total[1] - total[2]) * 1000000 <= total[2]

-----------------------------------------------------------------------------
(* Reference definitions for create_network_graph *)

Annotated == net.status = "returned"

\* two characters that are the same letter whatever their case
SameLetter(x, y) ==
    \/ x = y
    \/ {x, y} \in { {"A", "a"}, {"B", "b"}, {"L", "l"}, {"O", "o"} }

\* q is a case-insensitive substring of the display name
NameContains(name, q) ==
    \E off \in 0..(Len(name) - Len(q)) :
        \A i \in 1..Len(q) : SameLetter(name[off + i], q[i])

\* the nodes of the call whose display name contains the query
MatchingNodes ==
    IF call.search_query.is_none THEN {}
    ELSE { n \in DOMAIN call.nodes : NameContains(call.nodes[n][1], call.search_query.chars) }

EmptyQuery == call.search_query.is_none \/ call.search_query.chars = <<>>

Highlighted == { n \in DOMAIN net.nodes : net.nodes[n].color = "#FFD700" }

\* a create_network_graph outcome without the community ids
WithoutCommunity(n) ==
    [nodes |-> [k \in DOMAIN n.nodes |->
                  [label |-> n.nodes[k].label, color |-> n.nodes[k].color,
                   size |-> n.nodes[k].size,
                   title |-> <<n.nodes[k].title[1], n.nodes[k].title[2],
                               n.nodes[k].title[3]>>]],
     edges |-> n.edges, options |-> n.options,
     pagerank_scores |-> n.pagerank_scores]

-----------------------------------------------------------------------------
(* Properties of create_network_graph *)

\* C11 - metric degradation: when the centrality or the community
\* computation fails, create_network_graph still returns; the failed metric is
\* an empty map, the other metric and every filtered node are delivered.
MetricDegradation ==
    ( /\ net.status # "none"
      /\ call.fault # "none"
      /\ ~metric_skipped(call.nodes, call.edges) ) =>
        /\ Annotated
        /\ DOMAIN net.nodes = DOMAIN call.nodes
        /\ call.fault = "pagerank" =>
              /\ net.pagerank_scores = EmptyMap
              /\ net.communities \in detect_communities(call.nodes, call.edges)
        /\ call.fault = "louvain" =>
              /\ net.communities = EmptyMap
              /\ net.pagerank_scores = compute_pagerank(call.nodes, call.edges)

\* C12 - empty search: with an empty or absent query, or a query that
\* no display name contains, no node gets the highlight colour and no focus
\* option is set.
EmptySearch ==
    (Annotated /\ (EmptyQuery \/ MatchingNodes = {})) =>
        /\ Highlighted = {}
        /\ ~net.options.focus_set
        /\ \A n \in DOMAIN net.nodes : net.nodes[n].color = entity_color(call.nodes[n][2])

\* the empty string as query over a graph that has nodes
EmptySearchWitness ==
    /\ Annotated
    /\ call.search_query = Query(<<>>)
    /\ DOMAIN net.nodes # {}
    /\ Len(net.edges) > 0

\* C13 - unique search match: a non-empty query contained in exactly one
\* display name highlights that node and sets the focus option to that node at
\* scale 2.0, whatever the node id.
UniqueSearchMatch ==
    (Annotated /\ ~EmptyQuery /\ Cardinality(MatchingNodes) = 1) =>
        \A n \in MatchingNodes :
            /\ Highlighted = {n}
            /\ net.options = [focus_set |-> TRUE, node |-> n, scale |-> 2]

\* C14 (as stated) - purity: a second create_network_graph call with the
\* same arguments gives the same outcome as the first, community ids included.
AnnotatePure ==
    (first_net.status = "returned" /\ Annotated) => net = first_net

\* C14 (amended) - a second create_network_graph call with the same
\* arguments gives the same nodes, labels, colours, sizes, tooltip name, type
\* and centrality, the same edges, scores and focus option as the first; only
\* the community ids may differ.
AnnotatePureExceptCommunity ==
    (first_net.status = "returned" /\ Annotated) =>
        WithoutCommunity(net) = WithoutCommunity(first_net)

\* two calls with the same arguments that assigned different community ids
AnnotatePureWitness ==
    /\ first_net.status = "returned"
    /\ Annotated
    /\ net.communities # first_net.communities
    /\ ~EmptyQuery
    /\ MatchingNodes # {}

\* position of node n in the iteration order of the call's node map
OrderIndex(n) == CHOOSE i \in 1..Len(call.order) : call.order[i] = n

\* the matching node that the iteration reaches last
LastMatch ==
    CHOOSE n \in MatchingNodes : \A m \in MatchingNodes : OrderIndex(m) <= OrderIndex(n)

\* C21 - multiple search matches: for a non-empty query exactly the nodes
\* whose display name contains it get the highlight colour, and the focus
\* option names the last matching node of the iteration order at scale 2.0.
MultipleSearchMatches ==
    (Annotated /\ ~EmptyQuery /\ MatchingNodes # {}) =>
        /\ Highlighted = MatchingNodes
        /\ net.options = [focus_set |-> TRUE, node |-> LastMatch, scale |-> 2]

-----------------------------------------------------------------------------
(* Properties of the external calls *)

\* the call has made its last attempt
CallOver == qa.called /\ qa.pc \in {"done", "presented"}

\* what the service did on the latest attempt
LastOutcome == qa.script[qa.attempt_number]

\* C16 - bounded retry: every external call makes at most 3 attempts,
\* and a ValueError on attempt 1 or 2 is followed by another attempt.
BoundedRetry ==
    qa.called =>
        /\ qa.attempt_number <= stop_after_attempt
        /\ (CallOver /\ qa.attempt_number < stop_after_attempt) =>
              LastOutcome # "ValueError"

\* C17 - retry selectivity: a decorated call starts another attempt only
\* after a ValueError; a failure of another class ends the call on the attempt
\* where it occurs and is raised to the caller.
RetrySelectivity ==
    (qa.called /\ retry_wrapped(qa.site)) =>
        /\ \A i \in 1..(qa.attempt_number - 1) : qa.script[i] = "ValueError"
        /\ (qa.attempt_number > 0 /\ LastOutcome = "ConnectionError") =>
              /\ CallOver
              /\ qa.result.status = "raised"

\* C18 - upstream unavailable: a call whose last attempt failed gives its
\* caller an exception, and the caller never shows it as an answer.
UpstreamUnavailable ==
    (qa.called /\ qa.pc = "presented" /\ Fails(LastOutcome)) =>
        /\ qa.result.status = "raised"
        /\ qa.shown \in {"st.error: Failed after retries", "uncaught exception"}

-----------------------------------------------------------------------------
(* Properties of the containers *)

\* the content of the container a reference names
Content(role) == heap.objects[heap.refs[role]]

\* C15 - no mutation, no aliasing: the node map and edge list given to
\* filter stay as given, whatever the caller later does to a stage's output;
\* the filtered node map and edge list given to the metrics and to the network
\* construction stay as filter returned them unless the caller changes them
\* itself; and every container a stage returns is distinct from every other
\* container of the run.
NoMutationNoAlias ==
    heap.called =>
        /\ Content("raw_nodes") = heap.given.nodes
        /\ Content("raw_edges") = heap.given.edges
        /\ \A role \in DOMAIN heap.refs \cap OutputRoles :
              \A other \in DOMAIN heap.refs \ {role} :
                  heap.refs[role] # heap.refs[other]
        /\ (heap.pc # "start" /\ "filtered_nodes" \notin heap.touched) =>
              Content("filtered_nodes") = heap.kept.nodes
        /\ (heap.pc # "start" /\ "filtered_edges" \notin heap.touched) =>
              Content("filtered_edges") = heap.kept.edges

\* the caller emptied the filtered node map and the score map of a run whose
\* input had nodes and an edge
NoMutationNoAliasWitness ==
    /\ heap.called
    /\ heap.pc = "annotated"
    /\ {"filtered_nodes", "pagerank_scores"} \subseteq heap.touched
    /\ heap.given.nodes # EmptyMap
    /\ Len(heap.given.edges) > 0

-----------------------------------------------------------------------------
(* Properties of interleaved requests *)

\* what request r's filter returns when r runs alone
AloneFiltered(r) ==
    filter_graph_data(PyTuple(<<requests.store.nodes, requests.store.edges>>),
                      DefaultFlags, requests.cfg[r].min_degree,
                      requests.cfg[r].min_confidence).result

\* what request r's create_network_graph returns when r runs alone: r's call is
\* then the first one to draw from the generator
AloneAnnotated(r) ==
    LET res == AloneFiltered(r)
    IN  IF nothing_to_show(res) THEN [status |-> "warning"]
        ELSE annotate_with_draw(res.nodes, res.edges, requests.cfg[r].search_query,
                                requests.stream[1])

FilterReturned(r) == requests.pc[r] \in {"annotate", "done"}

\* C19 (as stated) - non-interference: under every interleaving each
\* request's filtered graph and annotated graph, community ids included, are
\* those of the request running alone.
NonInterference ==
    requests.called =>
        \A r \in Requests :
            /\ FilterReturned(r) => requests.result[r] = AloneFiltered(r)
            /\ requests.pc[r] = "done" => requests.net[r] = AloneAnnotated(r)

\* C19 (amended) - under every interleaving each request's filtered graph
\* and its annotated graph apart from the community ids are those of the
\* request running alone.
NonInterferenceExceptCommunity ==
    requests.called =>
        \A r \in Requests :
            /\ FilterReturned(r) => requests.result[r] = AloneFiltered(r)
            /\ requests.pc[r] = "done" =>
                  /\ requests.net[r].status = AloneAnnotated(r).status
                  /\ requests.net[r].status = "returned" =>
                        WithoutCommunity(requests.net[r]) =
                            WithoutCommunity(AloneAnnotated(r))

\* two requests with different settings ran overlapped and both produced a
\* graph
NonInterferenceWitness ==
    /\ requests.called
    /\ requests.overlapped
    /\ requests.cfg[1] # requests.cfg[2]
    /\ \A r \in Requests :
          requests.pc[r] = "done" /\ requests.net[r].status = "returned"

-----------------------------------------------------------------------------
(* Properties of fetch_graph_data *)

\* the rows ingested so far
Ingested == 1..ingest.i

\* the places of the ingested rows where node id n occurs: <<row, 1>> for the
\* source, <<row, 2>> for the target
OccurrencesOf(n) ==
    { <<k, 1>> : k \in { j \in Ingested : ingest.results[j].source = n } }
        \cup { <<k, 2>> : k \in { j \in Ingested : ingest.results[j].target = n } }

IdsSeen == { ingest.results[k].source : k \in Ingested }
               \cup { ingest.results[k].target : k \in Ingested }

Later(a, b) == a[1] > b[1] \/ (a[1] = b[1] /\ a[2] >= b[2])

LastOccurrence(n) ==
    CHOOSE a \in OccurrencesOf(n) : \A b \in OccurrencesOf(n) : Later(a, b)

\* an absent or empty property reads "Unknown"
Shown(field) == IF field = PyNone \/ field = PyStr("") THEN "Unknown" ELSE field.str

\* the (name, label) a row carries for its source (side 1) or target (side 2)
CarriedAt(a) ==
    LET row == ingest.results[a[1]]
    IN  IF a[2] = 1 THEN <<Shown(row.source_name), Shown(row.source_label)>>
        ELSE <<Shown(row.target_name), Shown(row.target_label)>>

\* C22 - last write wins: the node table holds exactly the ids seen so
\* far, each with the name and label of its last occurrence (source before
\* target within a row), absent values reading "Unknown".
IngestLastWriteWins ==
    ingest.called =>
        /\ DOMAIN ingest.nodes = IdsSeen
        /\ \A n \in IdsSeen : ingest.nodes[n] = CarriedAt(LastOccurrence(n))

\* a node whose stored entry replaced a different earlier one, by a row with
\* an absent property
IngestLastWriteWinsWitness ==
    /\ ingest.called
    /\ ingest.pc = "returned"
    /\ \E n \in IdsSeen :
          /\ \E a \in OccurrencesOf(n) : CarriedAt(a) # ingest.nodes[n]
          /\ ingest.nodes[n][1] = "Unknown"

\* C23 - raw graph invariant: after any prefix of the rows every edge has
\* both endpoints in the node table, and the edge list has one edge per row in
\* row order, parallel edges and self-loops included.
RawGraphInvariant ==
    ingest.called =>
        /\ \A k \in 1..Len(ingest.edges) :
              /\ ingest.edges[k][1] \in DOMAIN ingest.nodes
              /\ ingest.edges[k][2] \in DOMAIN ingest.nodes
        /\ Len(ingest.edges) = ingest.i
        /\ \A k \in Ingested :
              /\ ingest.edges[k][1] = ingest.results[k].source
              /\ ingest.edges[k][2] = ingest.results[k].target
              /\ ingest.edges[k][3] = ingest.results[k].relationship

\* inside the loop, with two parallel edges and a self-loop ingested
RawGraphInvariantWitness ==
    /\ ingest.called
    /\ ingest.pc = "loop"
    /\ \E j \in Ingested : \E k \in Ingested :
          /\ j < k
          /\ ingest.edges[j][1] = ingest.edges[k][1]
          /\ ingest.edges[j][2] = ingest.edges[k][2]
          /\ ingest.edges[j][1] # ingest.edges[j][2]
    /\ \E k \in Ingested : ingest.edges[k][1] = ingest.edges[k][2]

-----------------------------------------------------------------------------
(* Properties of the Generate-Graph request *)

PipelineOrder == <<"fetch", "filter", "annotate", "render">>

StepsTaken == { ui.steps[k] : k \in 1..Len(ui.steps) }

\* C24 - pipeline gating: the steps of a request are taken in the order
\* fetch, filter, annotate, render; annotate is reached only after a filter
\* that returned at least one node and at least one edge; a request that ends
\* without an exception either rendered the graph after all four steps or shows
\* the empty-state warning with nothing rendered.
UiGating ==
    ui.called =>
        /\ Len(ui.steps) <= Len(PipelineOrder)
        /\ \A k \in 1..Len(ui.steps) : ui.steps[k] = PipelineOrder[k]
        /\ "annotate" \in StepsTaken =>
              /\ ui.filtered.status = "returned"
              /\ DOMAIN ui.filtered.nodes # {}
              /\ Len(ui.filtered.edges) > 0
        /\ ui.pc = "ended" =>
              \/ /\ ui.shown = "graph"
                 /\ ui.steps = PipelineOrder
                 /\ ui.net.status = "returned"
              \/ /\ ui.shown = "st.warning: No graph data available after filtering"
                 /\ ui.steps = <<"fetch", "filter">>
                 /\ ui.net = NoResult

\* a request that ended with the warning although the filter kept a node: no
\* edge survived
UiGatingWitness ==
    /\ ui.called
    /\ ui.pc = "ended"
    /\ ui.shown = "st.warning: No graph data available after filtering"
    /\ DOMAIN ui.filtered.nodes # {}
    /\ Len(ui.filtered.edges) = 0

=============================================================================
